---- MODULE Spec2Model ----
(***************************************************************************)
(* jaybro: an interactive JSON browser (src/jaybro.py).                    *)
(*                                                                         *)
(* Strings are sequences of one-character strings, so that the path        *)
(* grammar (split on ".", find "[" and "]", int()) and Python's str()/     *)
(* repr() rendering are computed character by character as the code does.  *)
(* A JSON value is a record [kind, txt, kids]:                             *)
(*   kind "obj":  kids = <<[key |-> Str, val |-> Node], ...>> (dict order) *)
(*   kind "arr":  kids = <<[key |-> <<>>, val |-> Node], ...>>             *)
(*   kind "str":  txt = the characters                                     *)
(*   kind "num":  txt = the digits of the integer                          *)
(*   kind "bool": txt = "True" or "False" (Python's rendering)             *)
(*   kind "null": Python's None                                            *)
(***************************************************************************)
EXTENDS Integers, Sequences, FiniteSets, TLC

\* ------------------------------------------------------------------------
\* JSON values as json.load builds them
\* ------------------------------------------------------------------------

None == [kind |-> "null", txt |-> <<>>, kids |-> <<>>]

JStr(t) == [kind |-> "str", txt |-> t, kids |-> <<>>]

JNum(t) == [kind |-> "num", txt |-> t, kids |-> <<>>]

JTrue == [kind |-> "bool", txt |-> <<"T", "r", "u", "e">>, kids |-> <<>>]

\* items: a sequence of nodes
JArr(items) ==
    [kind |-> "arr", txt |-> <<>>,
     kids |-> [i \in 1..Len(items) |-> [key |-> <<>>, val |-> items[i]]]]

\* pairs: a sequence of <<key, node>>, keys distinct (a dict)
JObj(pairs) ==
    [kind |-> "obj", txt |-> <<>>,
     kids |-> [i \in 1..Len(pairs) |-> [key |-> pairs[i][1], val |-> pairs[i][2]]]]

\* ------------------------------------------------------------------------
\* Python string operations
\* ------------------------------------------------------------------------

Digits == <<"0", "1", "2", "3", "4", "5", "6", "7", "8", "9">>

IsDigit(c) == \E d \in 1..Len(Digits) : Digits[d] = c

DigitVal(c) == (CHOOSE d \in 1..Len(Digits) : Digits[d] = c) - 1

RECURSIVE IntToStr(_)
\* f"{i}" for i >= 0
IntToStr(n) ==
    IF n < 10 THEN <<Digits[n + 1]>>
    ELSE IntToStr(n \div 10) \o <<Digits[(n % 10) + 1]>>

\* s.find(c): the 0-based position of the first c, -1 when there is none
Find(s, c) ==
    IF \E i \in 1..Len(s) : s[i] = c
    THEN (CHOOSE i \in 1..Len(s) : s[i] = c /\ \A j \in 1..(i - 1) : s[j] /= c) - 1
    ELSE -1

\* s[a:b] for 0 <= a
Slice(s, a, b) ==
    LET hi == IF b > Len(s) THEN Len(s) ELSE b
    IN  IF hi <= a THEN <<>> ELSE SubSeq(s, a + 1, hi)

IsSpace(c) == c = " "

RECURSIVE LStrip(_)
LStrip(s) == IF s /= <<>> /\ IsSpace(Head(s)) THEN LStrip(Tail(s)) ELSE s

RECURSIVE RStrip(_)
RStrip(s) ==
    IF s /= <<>> /\ IsSpace(s[Len(s)]) THEN RStrip(SubSeq(s, 1, Len(s) - 1)) ELSE s

\* s.strip()
Strip(s) == RStrip(LStrip(s))

RECURSIVE Split(_, _)
\* s.split(c): empty pieces are kept, "" splits to [""]
Split(s, c) ==
    LET p == Find(s, c)
    IN  IF p < 0 THEN <<s>>
        ELSE <<Slice(s, 0, p)>> \o Split(Slice(s, p + 1, Len(s)), c)

StartsWith(s, pre) == Len(pre) <= Len(s) /\ SubSeq(s, 1, Len(pre)) = pre

EndsWith(s, suf) ==
    Len(suf) <= Len(s) /\ SubSeq(s, Len(s) - Len(suf) + 1, Len(s)) = suf

\* sub in s
Contains(s, sub) ==
    \E i \in 0..(Len(s) - Len(sub)) : SubSeq(s, i + 1, i + Len(sub)) = sub

\* s.count(sub) for a two-character sub whose halves differ (no overlaps)
Count(s, sub) ==
    Cardinality({i \in 0..(Len(s) - Len(sub)) : SubSeq(s, i + 1, i + Len(sub)) = sub})

LowerChar(c) ==
    CASE c = "F" -> "f"
      [] c = "O" -> "o"
      [] c = "X" -> "x"
      [] OTHER -> c

\* s.lower()
Lower(s) == [i \in 1..Len(s) |-> LowerChar(s[i])]

RECURSIVE DigitsValue(_)
DigitsValue(s) ==
    IF s = <<>> THEN 0
    ELSE 10 * DigitsValue(SubSeq(s, 1, Len(s) - 1)) + DigitVal(s[Len(s)])

\* int(s): surrounding whitespace and one sign are accepted; anything else but
\* a non-empty run of digits raises ValueError
IntParse(s) ==
    LET t == Strip(s)
        signed == t /= <<>> /\ Head(t) \in {"-", "+"}
        body == IF signed THEN Tail(t) ELSE t
    IN  IF body /= <<>> /\ \A i \in 1..Len(body) : IsDigit(body[i])
        THEN [ok |-> TRUE,
              n |-> IF signed /\ Head(t) = "-" THEN 0 - DigitsValue(body)
                    ELSE DigitsValue(body)]
        ELSE [ok |-> FALSE, n |-> 0]

RECURSIVE Join(_, _)
\* sep.join(parts)
Join(parts, sep) ==
    IF parts = <<>> THEN <<>>
    ELSE IF Len(parts) = 1 THEN parts[1]
    ELSE parts[1] \o sep \o Join(Tail(parts), sep)

RECURSIVE Escape(_, _)
Escape(s, q) ==
    IF s = <<>> THEN <<>>
    ELSE (IF Head(s) = "\\" \/ Head(s) = q THEN <<"\\", Head(s)>> ELSE <<Head(s)>>)
         \o Escape(Tail(s), q)

\* repr(s) of a str: double quotes when s holds ' and no ", else single quotes;
\* the backslash and the chosen quote are escaped
ReprStr(s) ==
    LET q == IF (\E i \in 1..Len(s) : s[i] = "'") /\ ~(\E i \in 1..Len(s) : s[i] = "\"")
             THEN "\"" ELSE "'"
    IN  <<q>> \o Escape(s, q) \o <<q>>

RECURSIVE Repr(_)
\* repr(value): what str() of a container shows of its members
Repr(v) ==
    CASE v.kind = "str" -> ReprStr(v.txt)
      [] v.kind = "num" -> v.txt
      [] v.kind = "bool" -> v.txt
      [] v.kind = "null" -> <<"N", "o", "n", "e">>
      [] v.kind = "arr" ->
            <<"[">> \o Join([i \in 1..Len(v.kids) |-> Repr(v.kids[i].val)], <<",", " ">>)
            \o <<"]">>
      [] v.kind = "obj" ->
            <<"{">>
            \o Join([i \in 1..Len(v.kids) |->
                        ReprStr(v.kids[i].key) \o <<":", " ">> \o Repr(v.kids[i].val)],
                    <<",", " ">>)
            \o <<"}">>

\* str(value): a str renders as itself, everything else as its repr
Str(v) == IF v.kind = "str" THEN v.txt ELSE Repr(v)

\* ------------------------------------------------------------------------
\* Path Indexer: extract_paths
\* ------------------------------------------------------------------------

\* A Python dict as a sequence of [path, value] entries in insertion order.
DictHas(d, k) == \E i \in 1..Len(d) : d[i].path = k

DictGet(d, k) == d[CHOOSE i \in 1..Len(d) : d[i].path = k].value

\* results[path] = value: a new key is appended, an existing key keeps its
\* place and takes the new value
DictSet(d, k, v) ==
    IF DictHas(d, k)
    THEN [i \in 1..Len(d) |-> IF d[i].path = k THEN [path |-> k, value |-> v] ELSE d[i]]
    ELSE Append(d, [path |-> k, value |-> v])

DictKeys(d) == [i \in 1..Len(d) |-> d[i].path]

\* the child path of the i-th member (1-based) of an object or an array
ChildPath(data, i, current_path) ==
    IF data.kind = "obj"
    THEN IF current_path /= <<>> THEN current_path \o <<".">> \o data.kids[i].key
         ELSE data.kids[i].key
    ELSE current_path \o <<"[">> \o IntToStr(i - 1) \o <<"]">>

RECURSIVE ExtractPathsFrom(_, _, _, _)
\* extract_paths(data, current_path, results), its loop resumed at member i
ExtractPathsFrom(data, i, current_path, results) ==
    IF data.kind \notin {"obj", "arr"} \/ i > Len(data.kids) THEN results
    ELSE LET path == ChildPath(data, i, current_path)
             value == data.kids[i].val
         IN  ExtractPathsFrom(data, i + 1, current_path,
                 ExtractPathsFrom(value, 1, path, DictSet(results, path, value)))

ExtractPaths(data) == ExtractPathsFrom(data, 1, <<>>, <<>>)

\* ------------------------------------------------------------------------
\* Path Resolver: get_value_at_path
\* ------------------------------------------------------------------------

Ok(v) == [err |-> "", val |-> v]

Raise(e) == [err |-> e, val |-> None]

\* current_data[elem] with a str subscript
GetItemKey(cur, key) ==
    IF cur.kind = "obj"
    THEN IF \E i \in 1..Len(cur.kids) : cur.kids[i].key = key
         THEN Ok(cur.kids[CHOOSE i \in 1..Len(cur.kids) : cur.kids[i].key = key].val)
         ELSE Raise("KeyError")
    ELSE Raise("TypeError")

\* x[index] with an int subscript: lists and strs take -len..len-1
GetItemIndex(cur, n) ==
    CASE cur.kind = "arr" ->
            LET len == Len(cur.kids)
            IN  IF 0 - len <= n /\ n < len
                THEN Ok(cur.kids[(IF n < 0 THEN n + len ELSE n) + 1].val)
                ELSE Raise("IndexError")
      [] cur.kind = "str" ->
            LET len == Len(cur.txt)
            IN  IF 0 - len <= n /\ n < len
                THEN Ok(JStr(<<cur.txt[(IF n < 0 THEN n + len ELSE n) + 1]>>))
                ELSE Raise("IndexError")
      [] cur.kind = "obj" -> Raise("KeyError")
      [] OTHER -> Raise("TypeError")

HasBrackets(elem) ==
    (\E i \in 1..Len(elem) : elem[i] = "[") /\ (\E i \in 1..Len(elem) : elem[i] = "]")

RECURSIVE WalkElements(_, _, _)
\* the for loop of get_value_at_path from element i on
WalkElements(current_data, elements, i) ==
    IF i > Len(elements) THEN Ok(current_data)
    ELSE LET elem == elements[i]
         IN  IF HasBrackets(elem)
             THEN LET index == IntParse(Slice(elem, Find(elem, "[") + 1, Find(elem, "]")))
                      field == GetItemKey(current_data, Split(elem, "[")[1])
                      item == GetItemIndex(field.val, index.n)
                  IN  IF ~index.ok THEN Raise("ValueError")
                      ELSE IF field.err /= "" THEN field
                      ELSE IF item.err /= "" THEN item
                      ELSE WalkElements(item.val, elements, i + 1)
             ELSE LET field == GetItemKey(current_data, elem)
                  IN  IF field.err /= "" THEN field
                      ELSE WalkElements(field.val, elements, i + 1)

\* KeyError, IndexError and TypeError return None; a ValueError of int() leaves
\* the function
GetValueAtPath(data, path) ==
    LET r == WalkElements(data, Split(Strip(path), "."), 1)
    IN  IF r.err \in {"KeyError", "IndexError", "TypeError"} THEN Ok(None) ELSE r

\* ------------------------------------------------------------------------
\* Search Engine: search_values_in_json, lines 96-113
\* ------------------------------------------------------------------------

Matches(term, value) == Contains(Lower(Str(value)), Lower(term))

CurrentTag(path) == LET parts == Split(path, ".") IN parts[Len(parts)]

RECURSIVE SearchFrom(_, _, _, _, _)
\* the loop over paths.items() from entry i on; a ValueError of
\* get_value_at_path ends it
SearchFrom(data, term, paths, i, json_output) ==
    IF i > Len(paths) THEN [err |-> "", out |-> json_output]
    ELSE IF Matches(term, paths[i].value)
    THEN LET got == GetValueAtPath(data, paths[i].path)
         IN  IF got.err /= "" THEN [err |-> got.err, out |-> json_output]
             ELSE SearchFrom(data, term, paths, i + 1,
                      Append(json_output,
                             [path |-> paths[i].path,
                              tag |-> CurrentTag(paths[i].path),
                              value |-> got.val]))
    ELSE SearchFrom(data, term, paths, i + 1, json_output)

SearchRecords(data, term) == SearchFrom(data, term, ExtractPaths(data), 1, <<>>)

\* ------------------------------------------------------------------------
\* Session Store: search_values_in_json lines 115-127, list_saved_json
\* ------------------------------------------------------------------------

\* f"{file_name}_{session_ts}.json"
SessionFile(file_name, session_ts) ==
    file_name \o <<"_">> \o session_ts \o <<".", "j", "s", "o", "n">>

\* A file: absent, a JSON document, or text json.load cannot decode.
Absent == [exists |-> FALSE, ok |-> FALSE, doc |-> <<>>]

\* open(name, "w") leaves the file empty until the dump is flushed
Truncated == [exists |-> TRUE, ok |-> FALSE, doc |-> <<>>]

\* json.dump(data, f, indent=2) followed by the close of f
JsonDump(data) == [exists |-> TRUE, ok |-> TRUE, doc |-> data]

\* json.load(f)
JsonLoad(content) ==
    IF content.ok THEN [err |-> "", val |-> content.doc]
    ELSE [err |-> "JSONDecodeError", val |-> <<>>]

\* os.path.exists(session_file)
Exists(files, name) == files[name].exists

WriteFile(files, name, content) == [files EXCEPT ![name] = content]

\* a rewrite that forgets what the file held
ExtendDropsExisting(existing_data, json_output) == json_output

\* existing_data.extend(json_output)
Extend(existing_data, json_output) == existing_data \o json_output

\* lines 115-127 run without interruption: the files afterwards, or the error
\* that left the function before anything was written
AppendStore(files, name, json_output) ==
    IF json_output = <<>> THEN [err |-> "", files |-> files, wrote |-> FALSE]
    ELSE LET existing == IF Exists(files, name) THEN JsonLoad(files[name])
                         ELSE [err |-> "", val |-> <<>>]
         IN  IF existing.err /= "" THEN [err |-> existing.err, files |-> files, wrote |-> FALSE]
             ELSE [err |-> "",
                   files |-> WriteFile(files, name, JsonDump(Extend(existing.val, json_output))),
                   wrote |-> TRUE]

\* list_saved_json: what it prints, or the error that leaves it
ListSaved(files, name) ==
    IF ~Exists(files, name)
    THEN [err |-> "", msg |-> "No saved JSON data found for the current session.",
          recs |-> <<>>]
    ELSE LET saved_data == JsonLoad(files[name])
         IN  IF saved_data.err /= "" THEN [err |-> saved_data.err, msg |-> "", recs |-> <<>>]
             ELSE [err |-> "", msg |-> "listed", recs |-> saved_data.val]

\* ------------------------------------------------------------------------
\* Command dispatch: interactive_browse lines 186-242
\* ------------------------------------------------------------------------

\* input(...).strip(), then the text before the first tab
UserInput(raw) ==
    LET t == Strip(raw)
    IN  IF \E i \in 1..Len(t) : t[i] = "\t" THEN Split(t, "\t")[1] ELSE t

\* the branch of the if/elif chain that user_input takes
Classify(user_input) ==
    CASE user_input = <<"%">> -> "exit"
      [] user_input = <<"/", "h">> -> "help"
      [] user_input = <<"?">> -> "depth1"
      [] user_input = <<"?", "?">> -> "all"
      [] Count(user_input, <<"?", ".">>) > 0 -> "depth"
      [] EndsWith(user_input, <<"?">>) -> "prefix"
      [] StartsWith(user_input, <<"/", "f", " ">>) -> "f"
      [] StartsWith(user_input, <<"/", "F", " ">>) -> "F"
      [] StartsWith(user_input, <<"/", "k", " ">>) -> "k"
      [] user_input = <<"/", "k", "s">> -> "ks"
      [] user_input = <<"/", "k", "l">> -> "kl"
      [] StartsWith(user_input, <<"/", "p", " ">>) -> "p"
      [] OTHER -> "bare"

\* user_input[3:].strip()
Argument(user_input) == Strip(Slice(user_input, 3, Len(user_input)))

\* print_structure: the value printed, "Invalid path." for None, or the
\* ValueError that leaves it
PrintStructure(data, path) ==
    LET value == GetValueAtPath(data, path)
    IN  IF value.err /= "" THEN [err |-> value.err, msg |-> "", node |-> None]
        ELSE IF value.val /= None THEN [err |-> "", msg |-> "printed", node |-> value.val]
        ELSE [err |-> "", msg |-> "Invalid path.", node |-> None]

\* main, lines 270-273: what is printed for an exception that left
\* interactive_browse
MainExcept(err) ==
    IF err = "JSONDecodeError" THEN "Error: Invalid JSON data provided."
    ELSE "An unexpected error occurred"

\* datetime.now().strftime("%Y%m%d_%H%M%S"): the clock counts ticks of
\* 1/TicksPerSecond s from 2026-01-01 00:00:00, the stamp keeps whole seconds
TicksPerSecond == 2

Strftime(now) ==
    LET sec == now \div TicksPerSecond
    IN  <<"2", "0", "2", "6", "0", "1", "0", "1", "_", "0", "0", "0", "0">>
        \o <<Digits[(sec \div 10) + 1], Digits[(sec % 10) + 1]>>

\* ------------------------------------------------------------------------
\* Bounds and inputs
\* ------------------------------------------------------------------------

\* longest generated array
MaxLen == 2
\* /k commands one session runs
MaxSearches == 2
\* last tick of the clock
MaxClock == 2

Sessions == {1, 2}

SourceNames == {<<"d">>, <<"e">>}

Foo == <<"f", "o", "o">>

One == JNum(<<"1">>)

\* the spec's fixture {"a": {"b": [1, 2, {"c": "foo"}]}}
TFixture ==
    JObj(<< <<<<"a">>, JObj(<< <<<<"b">>,
        JArr(<<One, JNum(<<"2">>), JObj(<< <<<<"c">>, JStr(Foo)>> >>)>>)>> >>)>> >>)

\* a root array: ["Foo", 1]
TRootArray == JArr(<<JStr(<<"F", "o", "o">>), One>>)

\* arrays nested directly inside an array: {"a": [[1, "foo"], [2]]}
TNested ==
    JObj(<< <<<<"a">>, JArr(<<JArr(<<One, JStr(Foo)>>), JArr(<<JNum(<<"2">>)>>)>>)>> >>)

\* a key holding a dot: {"a.b": 1, "a": {"b": "foo"}}
TDotKey ==
    JObj(<< <<<<"a", ".", "b">>, One>>,
            <<<<"a">>, JObj(<< <<<<"b">>, JStr(Foo)>> >>)>> >>)

\* an empty key: {"": {"a": 1}, "a": "foo"}
TEmptyKey ==
    JObj(<< <<<<>>, JObj(<< <<<<"a">>, One>> >>)>>, <<<<"a">>, JStr(Foo)>> >>)

\* scalars of every kind: {"a": "foo", "b": null, "c": true}
TScalars ==
    JObj(<< <<<<"a">>, JStr(Foo)>>, <<<<"b">>, None>>, <<<<"c">>, JTrue>> >>)

\* a string that repr() escapes: {"a": {"b": "x\y"}}
TEscape ==
    JObj(<< <<<<"a">>, JObj(<< <<<<"b">>, JStr(<<"x", "\\", "y">>)>> >>)>> >>)

\* a key holding brackets: {"a[x]": "foo"}
TBracketKey == JObj(<< <<<<"a", "[", "x", "]">>, JStr(Foo)>> >>)

LeafValues == {One, JStr(Foo)}

RECURSIVE SeqsUpTo(_, _)
SeqsUpTo(S, n) ==
    IF n = 0 THEN {<<>>}
    ELSE LET shorter == SeqsUpTo(S, n - 1)
         IN  shorter \cup {Append(q, x) : q \in {r \in shorter : Len(r) = n - 1}, x \in S}

\* {"a": [...]} for every array of at most MaxLen leaves
TArrays == {JObj(<< <<<<"a">>, JArr(items)>> >>) : items \in SeqsUpTo(LeafValues, MaxLen)}

Trees ==
    {TFixture, TRootArray, TNested, TDotKey, TEmptyKey, TScalars, TEscape, TBracketKey}
    \cup TArrays

Terms == {Foo, <<"F", "O">>, <<"1">>, <<"x", "\\", "y">>, <<"z", "z">>}

\* paths a user may type that are not taken from the address space
ProbePaths ==
    {<<"a", ".", "b", "[", "5", "]">>, <<"a", ".", "b", "[", "2", "]">>,
     <<"a", "[", "x", "]">>, <<"a", "[", "]">>, <<"a", "[", "-", "1", "]">>,
     <<"a", "[", "0", "]">>, <<"a", "[", "2", "]">>, <<"z", "z">>, <<"a", ".", "c">>}

SeqRange(q) == {q[i] : i \in 1..Len(q)}

PathsTyped(data) == ProbePaths \cup SeqRange(DictKeys(ExtractPaths(data)))

\* the lines input() may return for a session browsing data
Lines(data) ==
    {<<"%">>, <<"/", "h">>, <<"?">>, <<"?", "?">>, <<"?", ".", "?">>, <<"a", "?">>,
     <<"/", "f", " ", "a">>, <<"/", "F", " ", "a">>, <<"/", "k", "s">>, <<"/", "k", "l">>,
     <<"/", "k", "l", "\t", "L", "i", "s", "t">>, <<" ", "/", "k", "s", " ">>}
    \cup {<<"/", "k", " ">> \o t : t \in Terms}
    \cup {<<"/", "p", " ">> \o q : q \in PathsTyped(data)}
    \cup PathsTyped(data)

\* The functions below are the operators above tabulated over the inputs, so
\* that TLC computes each result once.
LinesMemo == [data \in Trees |-> Lines(data)]

AllLines == UNION {LinesMemo[data] : data \in Trees}

UserInputMemo == [line \in AllLines |-> UserInput(line)]

ClassifyMemo == [line \in AllLines |-> Classify(UserInput(line))]

ArgumentMemo == [line \in AllLines |-> Argument(UserInput(line))]

ExtractPathsMemo == [data \in Trees |-> ExtractPaths(data)]

SearchMemo == [data \in Trees |-> [term \in Terms |-> SearchRecords(data, term)]]

\* every path a line of the session can hand to print_structure
PathsAsked(data) ==
    {UserInput(line) : line \in Lines(data)}
    \cup {Argument(UserInput(line)) : line \in Lines(data)}

PrintMemo == [data \in Trees |-> [path \in PathsAsked(data) |-> PrintStructure(data, path)]]

\* ------------------------------------------------------------------------
\* State
\* ------------------------------------------------------------------------

VARIABLES
    clock,       \* datetime.now(), in ticks
    fs,          \* the directory of session files: name -> content
    pc,          \* per session: "off", "prompt", the steps of an append, "ended", "aborted"
    json_data,   \* per session: the tree
    file_name,   \* per session: the source name
    session_ts,  \* per session: the timestamp string
    paths,       \* per session: PathCompleter.paths
    req,         \* per session: the last command dispatched, [cmd, arg]
    msg,         \* per session: the last message printed
    res,         \* per session: what the last command showed, [node, recs]
    frame,       \* per session: json_output and existing_data of a running append
    appended,    \* history: the json_output of each search this session completed
    nwrites,     \* history: how often this session wrote its store file
    nsearch      \* history: /k commands run

vars == <<clock, fs, pc, json_data, file_name, session_ts, paths, req, msg, res, frame,
          appended, nwrites, nsearch>>

\* every name a session file can take within the bounds
StoreNames == {SessionFile(f, Strftime(t)) : f \in SourceNames, t \in 0..MaxClock}

NoReq == [cmd |-> "", arg |-> <<>>]

NoRes == [node |-> None, recs |-> <<>>]

NoFrame == [json_output |-> <<>>, existing_data |-> <<>>]

Init ==
    /\ clock = 0
    /\ fs = [n \in StoreNames |-> Absent]
    /\ pc = [s \in Sessions |-> "off"]
    /\ json_data = [s \in Sessions |-> None]
    /\ file_name = [s \in Sessions |-> <<>>]
    /\ session_ts = [s \in Sessions |-> <<>>]
    /\ paths = [s \in Sessions |-> <<>>]
    /\ req = [s \in Sessions |-> NoReq]
    /\ msg = [s \in Sessions |-> ""]
    /\ res = [s \in Sessions |-> NoRes]
    /\ frame = [s \in Sessions |-> NoFrame]
    /\ appended = [s \in Sessions |-> <<>>]
    /\ nwrites = [s \in Sessions |-> 0]
    /\ nsearch = [s \in Sessions |-> 0]

StoreOf(s) == SessionFile(file_name[s], session_ts[s])

\* ------------------------------------------------------------------------
\* Actions
\* ------------------------------------------------------------------------

\* datetime.now() moves on
Tick ==
    /\ clock < MaxClock
    /\ clock' = clock + 1
    /\ UNCHANGED <<fs, pc, json_data, file_name, session_ts, paths, req, msg, res, frame,
                   appended, nwrites, nsearch>>

\* main has loaded data from the file named name: interactive_browse up to its
\* first input()
Boot(s, data, name) ==
    /\ pc[s] = "off"
    /\ pc' = [pc EXCEPT ![s] = "prompt"]
    /\ json_data' = [json_data EXCEPT ![s] = data]
    /\ file_name' = [file_name EXCEPT ![s] = name]
    /\ session_ts' = [session_ts EXCEPT ![s] = Strftime(clock)]
    /\ paths' = [paths EXCEPT ![s] = DictKeys(ExtractPathsMemo[data])]
    /\ msg' = [msg EXCEPT ![s] = "help"]
    /\ UNCHANGED <<clock, fs, req, res, frame, appended, nwrites, nsearch>>

Start(s) == \E data \in Trees, name \in SourceNames : Boot(s, data, name)

\* the loop is left by break: "JSON browser session ended."
Leave(s, cmd, text) ==
    /\ pc' = [pc EXCEPT ![s] = "ended"]
    /\ req' = [req EXCEPT ![s] = [cmd |-> cmd, arg |-> <<>>]]
    /\ msg' = [msg EXCEPT ![s] = text]
    /\ res' = [res EXCEPT ![s] = NoRes]
    /\ UNCHANGED <<clock, fs, json_data, file_name, session_ts, paths, frame, appended,
                   nwrites, nsearch>>

\* "%"
CmdExit(s, line) ==
    /\ pc[s] = "prompt"
    /\ ClassifyMemo[line] = "exit"
    /\ Leave(s, "exit", "Exiting.")

\* input() raises EOFError
EndOfInput(s) ==
    /\ pc[s] = "prompt"
    /\ Leave(s, "eof", "EOF detected. Exiting.")

\* /h, ?, ??, ?.?, prefix?, /f and /F only print
CmdDisplay(s, line) ==
    /\ pc[s] = "prompt"
    /\ LET cmd == ClassifyMemo[line]
       IN  /\ cmd \in {"help", "depth1", "all", "depth", "prefix", "f", "F"}
           /\ req' = [req EXCEPT ![s] = [cmd |-> cmd, arg |-> <<>>]]
           /\ msg' = [msg EXCEPT ![s] = IF cmd = "help" THEN "help" ELSE "paths"]
           /\ res' = [res EXCEPT ![s] = NoRes]
           /\ UNCHANGED <<clock, fs, pc, json_data, file_name, session_ts, paths, frame,
                          appended, nwrites, nsearch>>

\* "/ks": pass
CmdSave(s, line) ==
    /\ pc[s] = "prompt"
    /\ ClassifyMemo[line] = "ks"
    /\ req' = [req EXCEPT ![s] = [cmd |-> "ks", arg |-> <<>>]]
    /\ UNCHANGED <<clock, fs, pc, json_data, file_name, session_ts, paths, msg, res, frame,
                   appended, nwrites, nsearch>>

\* an exception leaves interactive_browse and main prints it
Aborted(s, err) ==
    /\ pc' = [pc EXCEPT ![s] = "aborted"]
    /\ msg' = [msg EXCEPT ![s] = MainExcept(err)]

\* "/kl"
CmdList(s, line) ==
    /\ pc[s] = "prompt"
    /\ ClassifyMemo[line] = "kl"
    /\ LET got == ListSaved(fs, StoreOf(s))
       IN  /\ req' = [req EXCEPT ![s] = [cmd |-> "kl", arg |-> <<>>]]
           /\ res' = [res EXCEPT ![s] = [node |-> None, recs |-> got.recs]]
           /\ IF got.err /= "" THEN Aborted(s, got.err)
              ELSE /\ msg' = [msg EXCEPT ![s] = got.msg]
                   /\ pc' = pc
           /\ UNCHANGED <<clock, fs, json_data, file_name, session_ts, paths, frame, appended,
                          nwrites, nsearch>>

\* "/p PATH": a ValueError is caught at line 239
CmdPrint(s, line) ==
    /\ pc[s] = "prompt"
    /\ ClassifyMemo[line] = "p"
    /\ LET path_to_print == ArgumentMemo[line]
           got == PrintMemo[json_data[s]][path_to_print]
       IN  /\ req' = [req EXCEPT ![s] = [cmd |-> "p", arg |-> path_to_print]]
           /\ res' = [res EXCEPT ![s] = [node |-> got.node, recs |-> <<>>]]
           /\ msg' = [msg EXCEPT ![s] =
                         IF got.err = "ValueError"
                         THEN "Invalid input. Please enter a valid path." ELSE got.msg]
           /\ UNCHANGED <<clock, fs, pc, json_data, file_name, session_ts, paths, frame,
                          appended, nwrites, nsearch>>

\* anything else: print_structure(json_data, user_input) outside any try but
\* the one for EOFError
CmdBare(s, line) ==
    /\ pc[s] = "prompt"
    /\ ClassifyMemo[line] = "bare"
    /\ LET got == PrintMemo[json_data[s]][UserInputMemo[line]]
       IN  /\ req' = [req EXCEPT ![s] = [cmd |-> "bare", arg |-> UserInputMemo[line]]]
           /\ res' = [res EXCEPT ![s] = [node |-> got.node, recs |-> <<>>]]
           /\ IF got.err /= "" THEN Aborted(s, got.err)
              ELSE /\ msg' = [msg EXCEPT ![s] = got.msg]
                   /\ pc' = pc
           /\ UNCHANGED <<clock, fs, json_data, file_name, session_ts, paths, frame, appended,
                          nwrites, nsearch>>

\* "/k TERM" with no other process at the store: search_values_in_json whole
CmdSearch(s, line) ==
    /\ pc[s] = "prompt"
    /\ ClassifyMemo[line] = "k"
    /\ nsearch[s] < MaxSearches
    /\ LET term == ArgumentMemo[line]
           found == SearchMemo[json_data[s]][term]
           store == AppendStore(fs, StoreOf(s), found.out)
           err == IF found.err /= "" THEN found.err ELSE store.err
       IN  /\ nsearch' = [nsearch EXCEPT ![s] = @ + 1]
           /\ req' = [req EXCEPT ![s] = [cmd |-> "k", arg |-> term]]
           /\ res' = [res EXCEPT ![s] = [node |-> None, recs |-> found.out]]
           /\ IF err /= ""
              THEN /\ Aborted(s, err)
                   /\ UNCHANGED <<fs, appended, nwrites>>
              ELSE /\ msg' = [msg EXCEPT ![s] = IF found.out = <<>> THEN "" ELSE "matches"]
                   /\ pc' = pc
                   /\ fs' = store.files
                   /\ appended' = [appended EXCEPT ![s] = Append(@, found.out)]
                   /\ nwrites' = [nwrites EXCEPT ![s] = IF store.wrote THEN @ + 1 ELSE @]
           /\ UNCHANGED <<clock, json_data, file_name, session_ts, paths, frame>>

\* what input() can return to session s: nothing unless it is at the prompt
InputLines(s) == IF pc[s] = "prompt" THEN LinesMemo[json_data[s]] ELSE {}

\* input() returns a line and the command loop runs the branch it selects
Exit(s) == \E line \in InputLines(s) : CmdExit(s, line)

Display(s) == \E line \in InputLines(s) : CmdDisplay(s, line)

Search(s) == \E line \in InputLines(s) : CmdSearch(s, line)

Save(s) == \E line \in InputLines(s) : CmdSave(s, line)

List(s) == \E line \in InputLines(s) : CmdList(s, line)

PrintPath(s) == \E line \in InputLines(s) : CmdPrint(s, line)

BarePath(s) == \E line \in InputLines(s) : CmdBare(s, line)

\* One interactive session, as the design's single-user command loop.
Next ==
    \/ Start(1)
    \/ Exit(1)
    \/ EndOfInput(1)
    \/ Display(1)
    \/ Search(1)
    \/ Save(1)
    \/ List(1)
    \/ PrintPath(1)
    \/ BarePath(1)

Spec == Init /\ [][Next]_vars

\* ------------------------------------------------------------------------
\* Sessions side by side: each file operation of the append is a step of its
\* own, and another process may run between two of them
\* ------------------------------------------------------------------------

\* the tree and the commands of the sessions that share a directory
SharedTrees == {TFixture}

SharedLines == {<<"/", "k", "l">>, <<"/", "k", " ", "f", "o", "o">>, <<"/", "k", " ", "1">>}

StartShared(s) == \E data \in SharedTrees, name \in SourceNames : Boot(s, data, name)

SharedInput(s) == IF pc[s] = "prompt" THEN SharedLines ELSE {}

\* "/k TERM", lines 96-118: the search, then os.path.exists(session_file)
SearchBegin(s, line) ==
    /\ pc[s] = "prompt"
    /\ ClassifyMemo[line] = "k"
    /\ nsearch[s] < MaxSearches
    /\ LET term == ArgumentMemo[line]
           found == SearchMemo[json_data[s]][term]
       IN  /\ nsearch' = [nsearch EXCEPT ![s] = @ + 1]
           /\ req' = [req EXCEPT ![s] = [cmd |-> "k", arg |-> term]]
           /\ res' = [res EXCEPT ![s] = [node |-> None, recs |-> found.out]]
           /\ IF found.err /= ""
              THEN /\ Aborted(s, found.err)
                   /\ frame' = frame
                   /\ appended' = appended
              ELSE IF found.out = <<>>
              THEN /\ msg' = [msg EXCEPT ![s] = ""]
                   /\ pc' = pc
                   /\ frame' = frame
                   /\ appended' = [appended EXCEPT ![s] = Append(@, <<>>)]
              ELSE /\ msg' = [msg EXCEPT ![s] = "matches"]
                   /\ frame' = [frame EXCEPT ![s] =
                                   [json_output |-> found.out, existing_data |-> <<>>]]
                   /\ pc' = [pc EXCEPT ![s] =
                                IF Exists(fs, StoreOf(s)) THEN "k_read" ELSE "k_open"]
                   /\ appended' = appended
           /\ UNCHANGED <<clock, fs, json_data, file_name, session_ts, paths, nwrites>>

\* lines 119-120: open(session_file, "r") and json.load
StoreRead(s) ==
    /\ pc[s] = "k_read"
    /\ LET existing == JsonLoad(fs[StoreOf(s)])
       IN  /\ IF existing.err /= ""
              THEN /\ Aborted(s, existing.err)
                   /\ frame' = [frame EXCEPT ![s] = NoFrame]
              ELSE /\ pc' = [pc EXCEPT ![s] = "k_open"]
                   /\ frame' = [frame EXCEPT ![s].existing_data = existing.val]
                   /\ msg' = msg
           /\ UNCHANGED <<clock, fs, json_data, file_name, session_ts, paths, req, res,
                          appended, nwrites, nsearch>>

\* lines 124-126: extend, then open(session_file, "w"), which empties the file
StoreOpen(s) ==
    /\ pc[s] = "k_open"
    /\ pc' = [pc EXCEPT ![s] = "k_dump"]
    /\ frame' = [frame EXCEPT ![s].existing_data = Extend(@, frame[s].json_output)]
    /\ fs' = WriteFile(fs, StoreOf(s), Truncated)
    /\ UNCHANGED <<clock, json_data, file_name, session_ts, paths, req, msg, res, appended,
                   nwrites, nsearch>>

\* line 127: json.dump and the close of the file
StoreDump(s) ==
    /\ pc[s] = "k_dump"
    /\ pc' = [pc EXCEPT ![s] = "prompt"]
    /\ fs' = WriteFile(fs, StoreOf(s), JsonDump(frame[s].existing_data))
    /\ appended' = [appended EXCEPT ![s] = Append(@, frame[s].json_output)]
    /\ nwrites' = [nwrites EXCEPT ![s] = @ + 1]
    /\ frame' = [frame EXCEPT ![s] = NoFrame]
    /\ UNCHANGED <<clock, json_data, file_name, session_ts, paths, req, msg, res, nsearch>>

SharedSearch(s) == \E line \in SharedInput(s) : SearchBegin(s, line)

SharedList(s) == \E line \in SharedInput(s) : CmdList(s, line)

NextShared ==
    \/ Tick
    \/ \E s \in Sessions : StartShared(s)
    \/ \E s \in Sessions : SharedSearch(s)
    \/ \E s \in Sessions : StoreRead(s)
    \/ \E s \in Sessions : StoreOpen(s)
    \/ \E s \in Sessions : StoreDump(s)
    \/ \E s \in Sessions : SharedList(s)
    \/ \E s \in Sessions : EndOfInput(s)

\* Two processes started on the same directory.
SpecShared == Init /\ [][NextShared]_vars

\* ------------------------------------------------------------------------
\* Properties
\* ------------------------------------------------------------------------

Started(s) == pc[s] /= "off"

Resolved(s) == req[s].cmd \in {"p", "bare"}

Searched(s) == req[s].cmd = "k"

Index(s) == ExtractPathsMemo[json_data[s]]

RECURSIVE Flatten(_)
Flatten(lists) == IF lists = <<>> THEN <<>> ELSE Head(lists) \o Flatten(Tail(lists))

\* C1: whenever a path of the address space has been resolved (by /p or as a
\* bare path), the node shown is the node the index maps to that path.
RoundTrip ==
    \A s \in Sessions :
        (Resolved(s) /\ DictHas(Index(s), req[s].arg))
            => /\ pc[s] = "prompt"
               /\ res[s].node = DictGet(Index(s), req[s].arg)

\* C2: a /k step never changes the store files, and a /ks step that follows a
\* search with matches adds exactly that search's records to the session's file.
TwoStepSave ==
    [][\A s \in Sessions :
          /\ (nsearch'[s] /= nsearch[s]) => fs' = fs
          /\ (req[s].cmd = "k" /\ res[s].recs /= <<>> /\ req'[s].cmd = "ks")
                => /\ fs'[StoreOf(s)].ok
                   /\ fs'[StoreOf(s)].doc = fs[StoreOf(s)].doc \o res[s].recs]_vars

\* some bracketed index text of the path is not a number
NonNumericIndex(path) ==
    LET elements == Split(Strip(path), ".")
    IN  \E i \in 1..Len(elements) :
            /\ HasBrackets(elements[i])
            /\ ~IntParse(Slice(elements[i], Find(elements[i], "[") + 1,
                               Find(elements[i], "]"))).ok

\* C3: after /p PATH or a bare PATH whose index text is not a number, nothing
\* was resolved, a message was shown and the session is back at its prompt.
BadIndexIsNotFound ==
    \A s \in Sessions :
        (Resolved(s) /\ NonNumericIndex(req[s].arg))
            => /\ pc[s] = "prompt"
               /\ res[s].node = None
               /\ msg[s] \in {"Invalid path.", "Invalid input. Please enter a valid path."}

\* C4: no session is ended by a store file that does not decode.
DecodeFailureKeepsSession ==
    \A s \in Sessions : ~(pc[s] = "aborted" /\ msg[s] = MainExcept("JSONDecodeError"))

NonEmpty(lists) == {i \in 1..Len(lists) : lists[i] /= <<>>}

\* C5: a session's store file holds the concatenation of the record lists of
\* its searches, in order, and is absent while every search came back empty;
\* the file was written once per non-empty list; /kl shows that concatenation,
\* or reports that nothing is saved, and leaves the session at its prompt.
StoreHoldsAppends ==
    \A s \in Sessions :
        Started(s) =>
            /\ fs[StoreOf(s)] = IF Flatten(appended[s]) = <<>> THEN Absent
                                ELSE JsonDump(Flatten(appended[s]))
            /\ nwrites[s] = Cardinality(NonEmpty(appended[s]))
            /\ req[s].cmd = "kl" =>
                  /\ pc[s] = "prompt"
                  /\ res[s].recs = Flatten(appended[s])
                  /\ msg[s] = IF Flatten(appended[s]) = <<>>
                              THEN "No saved JSON data found for the current session."
                              ELSE "listed"

\* two searches with matches were appended and /kl has listed both
ListedTwoAppends ==
    /\ req[1].cmd = "kl"
    /\ Len(appended[1]) = 2
    /\ Cardinality(NonEmpty(appended[1])) = 2
    /\ appended[1][1] /= appended[1][2]
    /\ res[1].recs = appended[1][1] \o appended[1][2]

\* the paths of d, in order, whose value's rendering contains term
RECURSIVE MatchingPaths(_, _, _)
MatchingPaths(d, term, i) ==
    IF i > Len(d) THEN <<>>
    ELSE (IF Contains(Lower(Str(d[i].value)), Lower(term)) THEN <<d[i].path>> ELSE <<>>)
         \o MatchingPaths(d, term, i + 1)

IsContainer(v) == v.kind \in {"obj", "arr"}

\* q addresses a container that p lies in
IsAncestorPath(q, p) == StartsWith(p, q \o <<".">>) \/ StartsWith(p, q \o <<"[">>)

RecordPaths(recs) == [i \in 1..Len(recs) |-> recs[i].path]

\* C6: a search yields one record per address-space path whose rendering
\* contains the term, in index order, tagged with the last dot segment; every
\* container above a matching leaf is among them; the fixture yields
\* a, a.b, a.b[2], a.b[2].c for "foo".
SearchCascade ==
    \A s \in Sessions :
        Searched(s) =>
            LET recs == res[s].recs
                found == RecordPaths(recs)
            IN  /\ found = MatchingPaths(Index(s), req[s].arg, 1)
                /\ \A i \in 1..Len(recs) : recs[i].tag = CurrentTag(recs[i].path)
                /\ \A i \in 1..Len(Index(s)) :
                      (/\ ~IsContainer(Index(s)[i].value)
                       /\ Index(s)[i].path \in SeqRange(found))
                          => \A j \in 1..Len(Index(s)) :
                                (/\ IsContainer(Index(s)[j].value)
                                 /\ IsAncestorPath(Index(s)[j].path, Index(s)[i].path))
                                    => Index(s)[j].path \in SeqRange(found)
                /\ (json_data[s] = TFixture /\ req[s].arg = Foo)
                      => found = <<<<"a">>, <<"a", ".", "b">>,
                                   <<"a", ".", "b", "[", "2", "]">>,
                                   <<"a", ".", "b", "[", "2", "]", ".", "c">>>>

\* C7: the value of every record of a search is the node the index maps to
\* the record's path.
RecordValueIsNode ==
    \A s \in Sessions :
        Searched(s) =>
            \A i \in 1..Len(res[s].recs) :
                res[s].recs[i].value = DictGet(Index(s), res[s].recs[i].path)

RECURSIVE BadStep(_, _, _)
\* Some access step of elements, from the i-th on, does not fit cur: a key
\* that is missing or asked of a non-object, an index asked of a non-array or
\* outside 0..length-1. Index text that is no number is not judged here.
BadStep(cur, elements, i) ==
    IF i > Len(elements) THEN FALSE
    ELSE LET elem == elements[i]
             name == Split(elem, "[")[1]
             index == IntParse(Slice(elem, Find(elem, "[") + 1, Find(elem, "]")))
             hasKey(k) == cur.kind = "obj" /\ \E m \in 1..Len(cur.kids) : cur.kids[m].key = k
             child(k) == cur.kids[CHOOSE m \in 1..Len(cur.kids) : cur.kids[m].key = k].val
         IN  IF HasBrackets(elem)
             THEN IF ~index.ok THEN FALSE
                  ELSE IF ~hasKey(name) THEN TRUE
                  ELSE IF child(name).kind /= "arr" THEN TRUE
                  ELSE IF index.n < 0 \/ index.n >= Len(child(name).kids) THEN TRUE
                  ELSE BadStep(child(name).kids[index.n + 1].val, elements, i + 1)
             ELSE IF ~hasKey(elem) THEN TRUE
                  ELSE BadStep(child(elem), elements, i + 1)

\* C8: a resolved path with an access step that does not fit the tree gives
\* NotFound.
IncompatibleIsNotFound ==
    \A s \in Sessions :
        (Resolved(s) /\ BadStep(json_data[s], Split(Strip(req[s].arg), "."), 1))
            => /\ pc[s] = "prompt"
               /\ res[s].node = None

\* C9: two started sessions on the same source name never have the same
\* timestamp, hence never the same store file.
DistinctIdentities ==
    \A s, t \in Sessions :
        (s /= t /\ Started(s) /\ Started(t) /\ file_name[s] = file_name[t])
            => /\ session_ts[s] /= session_ts[t]
               /\ StoreOf(s) /= StoreOf(t)

RECURSIVE PreorderFrom(_, _, _)
\* the path of every node below data, parent before children, siblings in
\* source order, one per node
PreorderFrom(data, i, current_path) ==
    IF ~IsContainer(data) \/ i > Len(data.kids) THEN <<>>
    ELSE LET path == ChildPath(data, i, current_path)
         IN  <<path>> \o PreorderFrom(data.kids[i].val, 1, path)
             \o PreorderFrom(data, i + 1, current_path)

\* C10: the index built at session start has one entry per non-root node, in
\* pre-order, and no two nodes share a path.
OneEntryPerNode ==
    \A s \in Sessions :
        Started(s) =>
            LET nodes == PreorderFrom(json_data[s], 1, <<>>)
            IN  /\ paths[s] = nodes
                /\ \A i, j \in 1..Len(nodes) : i /= j => nodes[i] /= nodes[j]

====
